---- MODULE Spec2Model ----
(***************************************************************************)
(* A model of the purchase-pattern analyzer (src/data_analyzer.py).        *)
(*                                                                         *)
(* Representation of values                                                *)
(*   - money is counted in cents (19.99 is 1999);                          *)
(*   - a numeric cell that may be missing (pandas NaN) is a record         *)
(*     [nan, v]: NaN is [nan |-> TRUE, v |-> 0], Num(n) is the number n;   *)
(*   - a text cell is a sequence of one-character strings; the empty       *)
(*     CSV cell, which pandas reads as NaN, is the empty sequence;         *)
(*   - an optional argument is a record [none, v];                         *)
(*   - item names, categories and customer ids are numbered; the order of  *)
(*     the numbers stands for the sort order of the names;                 *)
(*   - an order date is the number of days since 2023-01-01;               *)
(*   - avg_interval, a float quotient of two small integers in the code,   *)
(*     is kept as the exact fraction [num, den] and compared by cross      *)
(*     multiplication (the quotients of integers this small differ by far  *)
(*     more than a float's rounding error, and target*0.5 and target*1.5   *)
(*     are exact in floating point).                                       *)
(*                                                                         *)
(* A request is one step: a method of the analyzer, called through its     *)
(* route of src/app.py where it has one, computes its result; the next     *)
(* step returns it and forgets it.                                         *)
(***************************************************************************)
EXTENDS Integers, Sequences, FiniteSets, TLC

VARIABLES
    csv,                \* the file the analyzer is built from
    analyzer,           \* app.py's analyzer: "ok" (an object) or "none"
    df,                 \* the analyzer's table
    user_bucket_lists,  \* app.py's store of custom lists, by customer
    posted,             \* by customer, the list of the last successful POST
    saved_items,        \* the dashboard's saved shopping list (a hidden div)
    pc, op, args,       \* the request being served
    status, result,     \* its HTTP status and its result
    memo                \* an earlier request and its result, once remembered

vars ==
    <<csv, analyzer, df, user_bucket_lists, posted, saved_items, pc, op, args,
      status, result, memo>>

\* ------------------------------------------------------------------ values

NaN == [nan |-> TRUE, v |-> 0]

Num(n) == [nan |-> FALSE, v |-> n]

None == [none |-> TRUE, v |-> 0]

Some(x) == [none |-> FALSE, v |-> x]

\* Python truthiness of an optional integer or string argument: None, 0 and
\* the empty string (category 0) are falsy.
Truthy(a) == ~a.none /\ a.v # 0

Digits == {"0", "1", "2", "3", "4", "5", "6", "7", "8", "9"}

DigitVal(c) ==
    CASE c = "0" -> 0 [] c = "1" -> 1 [] c = "2" -> 2 [] c = "3" -> 3
      [] c = "4" -> 4 [] c = "5" -> 5 [] c = "6" -> 6 [] c = "7" -> 7
      [] c = "8" -> 8 [] c = "9" -> 9

RECURSIVE SeqSum(_)
SeqSum(s) == IF s = <<>> THEN 0 ELSE Head(s) + SeqSum(Tail(s))

RECURSIVE Flatten(_)
Flatten(ss) == IF ss = <<>> THEN <<>> ELSE Head(ss) \o Flatten(Tail(ss))

Min(S) == CHOOSE x \in S : \A y \in S : x <= y

Max(S) == CHOOSE x \in S : \A y \in S : x >= y

\* ---------------------------------------------------------------- calendar

\* pandas' .dt.year and .dt.month of a date given in days since 2023-01-01,
\* for the years 2023 (365 days) and 2024 (a leap year).
YearOf(d) == IF d < 365 THEN 2023 ELSE 2024

MonthLengths(y) ==
    <<31, IF y = 2024 THEN 29 ELSE 28, 31, 30, 31, 30, 31, 31, 30, 31, 30, 31>>

RECURSIVE MonthFrom(_, _, _)
MonthFrom(dayOfYear, m, y) ==
    IF dayOfYear < MonthLengths(y)[m] THEN m
    ELSE MonthFrom(dayOfYear - MonthLengths(y)[m], m + 1, y)

MonthOf(d) == MonthFrom(IF d < 365 THEN d ELSE d - 365, 1, YearOf(d))

\* ------------------------------------------------------------ process_data

\* .astype(str): a missing cell becomes the text "nan".
astype_str(cell) == IF cell = <<>> THEN <<"n", "a", "n">> ELSE cell

\* .str.split('.').str[0]: the text before the first ".".
RECURSIVE split_first(_)
split_first(s) ==
    IF s = <<>> \/ Head(s) = "." THEN <<>>
    ELSE <<Head(s)>> \o split_first(Tail(s))

\* .str.replace(r'[^\d.]', '', regex=True): digits and dots are kept.
strip_non_numeric(s) == SelectSeq(s, LAMBDA c : c \in Digits \/ c = ".")

RECURSIVE DigitsValue(_, _)
DigitsValue(s, acc) ==
    IF s = <<>> THEN acc ELSE DigitsValue(Tail(s), 10 * acc + DigitVal(Head(s)))

\* The cents of a fractional part: its first two digits (prices carry no more).
FractionCents(f) ==
    IF f = <<>> THEN 0
    ELSE IF Len(f) = 1 THEN 10 * DigitVal(f[1])
    ELSE 10 * DigitVal(f[1]) + DigitVal(f[2])

\* pd.to_numeric(..., errors='coerce') of a text of digits and dots: the
\* number it spells, in cents, or NaN when it spells none (empty, a lone dot,
\* two dots).
to_numeric(s) ==
    LET dots == {i \in 1..Len(s) : s[i] = "."}
    IN  IF Len(s) = Cardinality(dots) \/ Cardinality(dots) > 1 THEN NaN
        ELSE IF dots = {} THEN Num(100 * DigitsValue(s, 0))
        ELSE LET k == CHOOSE i \in dots : TRUE
             IN  Num(100 * DigitsValue(SubSeq(s, 1, k - 1), 0)
                     + FractionCents(SubSeq(s, k + 1, Len(s))))

\* No fillna: a missing value stays missing.
fillna_missing(x, other) == x

\* .fillna(other): a missing value is replaced by the other column's.
fillna(x, other) == IF x.nan THEN other ELSE x

\* Lines 22-27: CleanPrice of one row.
clean_price(row) ==
    fillna(to_numeric(strip_non_numeric(split_first(astype_str(row.TotalPrice)))),
           row.BasePrice)

\* process_data dropping the rows left without a CleanPrice.
process_data_dropna(raw) ==
    SelectSeq([i \in 1..Len(raw) |->
                [CustomerID |-> raw[i].CustomerID,
                 OrderID    |-> raw[i].OrderID,
                 Item       |-> raw[i].Item,
                 Category   |-> raw[i].Category,
                 OrderDate  |-> raw[i].OrderDate,
                 Quantity   |-> raw[i].Quantity,
                 BasePrice  |-> raw[i].BasePrice,
                 TotalPrice |-> raw[i].TotalPrice,
                 Month      |-> MonthOf(raw[i].OrderDate),
                 Year       |-> YearOf(raw[i].OrderDate),
                 CleanPrice |-> clean_price(raw[i])]],
        LAMBDA r : ~r.CleanPrice.nan)

\* An order date text that is no date (days are counted from 0).
BadDate == -1

\* The columns process_data reads (lines 16, 23, 27); the file's other columns
\* are first read by the requests.
InitColumns == {"OrderDate", "TotalPrice", "Base Price"}

AllColumns ==
    InitColumns \cup {"CustomerID", "OrderID", "Item Name", "Category", "Quantity"}

\* __init__ returns (lines 10-11): process_data finds its columns, else a
\* KeyError, and pd.to_datetime parses every order date, else a ValueError.
construct_ok(file) ==
    /\ InitColumns \subseteq file.columns
    /\ \A i \in 1..Len(file.rows) : file.rows[i].OrderDate # BadDate

\* process_data: every row keeps its columns and gains Month, Year, CleanPrice.
process_data(raw) ==
    [i \in 1..Len(raw) |->
        [CustomerID |-> raw[i].CustomerID,
         OrderID    |-> raw[i].OrderID,
         Item       |-> raw[i].Item,
         Category   |-> raw[i].Category,
         OrderDate  |-> raw[i].OrderDate,
         Quantity   |-> raw[i].Quantity,
         BasePrice  |-> raw[i].BasePrice,
         TotalPrice |-> raw[i].TotalPrice,
         Month      |-> MonthOf(raw[i].OrderDate),
         Year       |-> YearOf(raw[i].OrderDate),
         CleanPrice |-> clean_price(raw[i])]]

\* ------------------------------------------------------ get_user_purchases

\* No selection: the rows of every customer.
user_rows_all(t, user_id) == t

\* self.df[self.df['CustomerID'] == user_id]
user_rows(t, user_id) == SelectSeq(t, LAMBDA r : r.CustomerID = user_id)

\* "if month: user_data = user_data[user_data['Month'] == month]"
filter_month(rows, month) ==
    IF Truthy(month) THEN SelectSeq(rows, LAMBDA r : r.Month = month.v) ELSE rows

\* "if category: user_data = user_data[user_data['Category'] == category]"
filter_category(rows, category) ==
    IF Truthy(category) THEN SelectSeq(rows, LAMBDA r : r.Category = category.v)
    ELSE rows

get_user_purchases(t, user_id, month, category) ==
    filter_category(filter_month(user_rows(t, user_id), month), category)

\* ----------------------------------------------- analyze_purchase_patterns

\* groupby sorts its keys: pairs in lexicographic order.
PairLeq(a, b) == a[1] < b[1] \/ (a[1] = b[1] /\ a[2] <= b[2])

RECURSIVE SortPairs(_)
SortPairs(S) ==
    IF S = {} THEN <<>>
    ELSE LET m == CHOOSE x \in S : \A y \in S : PairLeq(x, y)
         IN  <<m>> \o SortPairs(S \ {m})

RECURSIVE SortInts(_)
SortInts(S) ==
    IF S = {} THEN <<>> ELSE <<Min(S)>> \o SortInts(S \ {Min(S)})

\* Rounding a non-negative quotient a / b to the nearest integer, ties to even
\* (numpy's round), on the exact quotient.
RoundHalfEven(a, b) ==
    LET q == a \div b
        r == a % b
    IN  IF 2 * r < b THEN q
        ELSE IF 2 * r > b THEN q + 1
        ELSE IF q % 2 = 0 THEN q ELSE q + 1

\* The prices that are present (sum and mean skip NaN).
present(prices) == SelectSeq(prices, LAMBDA x : ~x.nan)

\* 'sum': NaN counts for nothing; the sum of no value is 0.
agg_sum(prices) ==
    LET p == present(prices) IN SeqSum([i \in 1..Len(p) |-> p[i].v])

\* 'mean' then .round(2): over the present values; NaN when there is none.
agg_mean(prices) ==
    LET p == present(prices)
    IN  IF p = <<>> THEN NaN ELSE Num(RoundHalfEven(agg_sum(prices), Len(p)))

\* Float division of two integers: 0/0 is NaN, x/0 is infinite (den = 0).
divide(a, b) == [nan |-> (a = 0 /\ b = 0), num |-> a, den |-> b]

\* No fillna: the quotient as it is.
fillna0_missing(q) == q

\* .fillna(0) of a quotient.
fillna0(q) == IF q.nan THEN [nan |-> FALSE, num |-> 0, den |-> 1] ELSE q

\* aggregate_row dividing the span by the number of purchases.
aggregate_row_per_purchase(key, g) ==
    LET dates == {g[i].OrderDate : i \in 1..Len(g)}
        count == Len(g)
        first == Min(dates)
        last  == Max(dates)
    IN  [Item           |-> key[1],
         Category       |-> key[2],
         purchase_count |-> count,
         first_purchase |-> first,
         last_purchase  |-> last,
         avg_price      |-> agg_mean([i \in 1..Len(g) |-> g[i].CleanPrice]),
         total_quantity |-> SeqSum([i \in 1..Len(g) |-> g[i].Quantity]),
         days_span      |-> last - first,
         avg_interval   |-> fillna0(divide(last - first, count))]

\* Lines 54-68 for one group of rows: the product-aggregate row.
aggregate_row(key, g) ==
    LET dates == {g[i].OrderDate : i \in 1..Len(g)}
        count == Len(g)
        first == Min(dates)
        last  == Max(dates)
    IN  [Item           |-> key[1],
         Category       |-> key[2],
         purchase_count |-> count,
         first_purchase |-> first,
         last_purchase  |-> last,
         avg_price      |-> agg_mean([i \in 1..Len(g) |-> g[i].CleanPrice]),
         total_quantity |-> SeqSum([i \in 1..Len(g) |-> g[i].Quantity]),
         days_span      |-> last - first,
         avg_interval   |-> fillna0(divide(last - first, count - 1))]

\* analyze_purchase_patterns grouping by the item name alone.
analyze_purchase_patterns_by_item(t, user_id) ==
    LET user_data == user_rows(t, user_id)
        items == SortInts({user_data[i].Item : i \in 1..Len(user_data)})
    IN  [k \in 1..Len(items) |->
            LET g == SelectSeq(user_data, LAMBDA r : r.Item = items[k])
            IN  aggregate_row(<<items[k], g[1].Category>>, g)]

analyze_purchase_patterns(t, user_id) ==
    LET user_data == user_rows(t, user_id)
        keys == SortPairs({<<user_data[i].Item, user_data[i].Category>> :
                              i \in 1..Len(user_data)})
    IN  [k \in 1..Len(keys) |->
            aggregate_row(keys[k],
                SelectSeq(user_data,
                    LAMBDA r : r.Item = keys[k][1] /\ r.Category = keys[k][2]))]

\* ------------------------------------------------ generate_recommendations

\* Line 99: bucket_list[:15].
TopN == 15

\* Line 72: the defaults of min_purchases and target_interval_days.
DefaultMinPurchases == 2

DefaultTargetInterval == 30

\* in_filter without the test of min_purchases.
in_filter_no_min(row, min_purchases, target_interval_days) ==
    /\ row.avg_interval.num > 0
    /\ 2 * row.avg_interval.num <= 3 * target_interval_days * row.avg_interval.den
    /\ 2 * row.avg_interval.num >= target_interval_days * row.avg_interval.den

\* in_filter without the test avg_interval > 0.
in_filter_no_positive(row, min_purchases, target_interval_days) ==
    /\ row.purchase_count >= min_purchases
    /\ 2 * row.avg_interval.num <= 3 * target_interval_days * row.avg_interval.den
    /\ 2 * row.avg_interval.num >= target_interval_days * row.avg_interval.den

\* in_filter with a strict upper bound of the band.
in_filter_strict_upper(row, min_purchases, target_interval_days) ==
    /\ row.purchase_count >= min_purchases
    /\ row.avg_interval.num > 0
    /\ 2 * row.avg_interval.num < 3 * target_interval_days * row.avg_interval.den
    /\ 2 * row.avg_interval.num >= target_interval_days * row.avg_interval.den

\* in_filter rejecting a min_purchases below 1.
in_filter_reject_low(row, min_purchases, target_interval_days) ==
    /\ min_purchases >= 1
    /\ row.purchase_count >= min_purchases
    /\ row.avg_interval.num > 0
    /\ 2 * row.avg_interval.num <= 3 * target_interval_days * row.avg_interval.den
    /\ 2 * row.avg_interval.num >= target_interval_days * row.avg_interval.den

\* Lines 78-81 for one aggregate row, avg_interval = num / den:
\*   avg_interval >  0          is  num > 0
\*   avg_interval <= target*1.5 is  2 * num <= 3 * target * den
\*   avg_interval >= target*0.5 is  2 * num >= target * den
in_filter(row, min_purchases, target_interval_days) ==
    /\ row.purchase_count >= min_purchases
    /\ row.avg_interval.num > 0
    /\ 2 * row.avg_interval.num <= 3 * target_interval_days * row.avg_interval.den
    /\ 2 * row.avg_interval.num >= target_interval_days * row.avg_interval.den

\* sorts_before on purchase_count alone.
sorts_before_count_only(a, b) == a.purchase_count > b.purchase_count

\* Line 85: a sorts before b: more purchases, or as many and a shorter
\* interval.
sorts_before(a, b) ==
    \/ a.purchase_count > b.purchase_count
    \/ /\ a.purchase_count = b.purchase_count
       /\ a.avg_interval.num * b.avg_interval.den
            < b.avg_interval.num * a.avg_interval.den

RECURSIVE insert_sorted(_, _)
insert_sorted(x, s) ==
    IF s = <<>> THEN <<x>>
    ELSE IF sorts_before(x, Head(s)) THEN <<x>> \o s
    ELSE <<Head(s)>> \o insert_sorted(x, Tail(s))

\* sort_values on several columns is a stable sort: rows with equal keys keep
\* the order of the aggregation (the order of the group keys).
RECURSIVE sort_prefix(_, _)
sort_prefix(s, k) ==
    IF k = 0 THEN <<>> ELSE insert_sorted(s[k], sort_prefix(s, k - 1))

sort_values(s) == sort_prefix(s, Len(s))

\* Lines 90-97: the entry of one row. avg_interval_days is in tenths of a day
\* (round(x, 1)); the reason string is given by the two numbers it prints.
bucket_entry(row) ==
    LET tenths == RoundHalfEven(10 * row.avg_interval.num, row.avg_interval.den)
    IN  [item              |-> row.Item,
         category          |-> row.Category,
         purchase_count    |-> row.purchase_count,
         avg_interval_days |-> tenths,
         avg_price         |-> row.avg_price,
         recommendation_reason |-> <<row.purchase_count, tenths>>]

\* Line 99: the first TopN elements.
head_n(s, n) == SubSeq(s, 1, IF Len(s) < n THEN Len(s) ELSE n)

\* Lines 77-82.
filter_rows(analysis, min_purchases, target_interval_days) ==
    SelectSeq(analysis,
        LAMBDA row : in_filter(row, min_purchases, target_interval_days))

\* generate_recommendations truncating the filtered rows before it sorts them.
generate_recommendations_truncate_first(t, user_id, min_purchases, target_interval_days) ==
    LET analysis        == analyze_purchase_patterns(t, user_id)
        recommendations ==
            sort_values(head_n(
                filter_rows(analysis, min_purchases, target_interval_days), TopN))
    IN  [i \in 1..Len(recommendations) |-> bucket_entry(recommendations[i])]

generate_recommendations(t, user_id, min_purchases, target_interval_days) ==
    LET analysis        == analyze_purchase_patterns(t, user_id)
        recommendations ==
            sort_values(filter_rows(analysis, min_purchases, target_interval_days))
        bucket_list     ==
            [i \in 1..Len(recommendations) |-> bucket_entry(recommendations[i])]
    IN  head_n(bucket_list, TopN)

\* --------------------------------------------- get_users and get_categories

\* get_users sorting in descending order.
get_users_descending(t) ==
    LET s == SortInts({t[i].CustomerID : i \in 1..Len(t)})
    IN  [k \in 1..Len(s) |-> s[Len(s) + 1 - k]]

\* sorted(self.df[column].unique())
get_users(t) == SortInts({t[i].CustomerID : i \in 1..Len(t)})

get_categories(t) == SortInts({t[i].Category : i \in 1..Len(t)})

\* ---------------------------------------------------------- summary views

\* get_spending_summary without the month filter.
get_spending_summary_no_month(t, user_id, month) ==
    LET user_data == user_rows(t, user_id)
        cats == SortInts({user_data[i].Category : i \in 1..Len(user_data)})
    IN  [k \in 1..Len(cats) |->
            LET g == SelectSeq(user_data, LAMBDA r : r.Category = cats[k])
            IN  [Category    |-> cats[k],
                 total_spent |-> agg_sum([i \in 1..Len(g) |-> g[i].CleanPrice]),
                 num_orders  |-> Cardinality({g[i].OrderID : i \in 1..Len(g)}),
                 num_items   |-> Len(g)]]

\* get_monthly_trends grouping by category alone (each group under its first
\* month).
get_monthly_trends_by_category(t, user_id) ==
    LET user_data == user_rows(t, user_id)
        cats == SortInts({user_data[i].Category : i \in 1..Len(user_data)})
    IN  [k \in 1..Len(cats) |->
            LET g == SelectSeq(user_data, LAMBDA r : r.Category = cats[k])
            IN  [Month      |-> Min({g[i].Month : i \in 1..Len(g)}),
                 Category   |-> cats[k],
                 CleanPrice |-> agg_sum([i \in 1..Len(g) |-> g[i].CleanPrice])]]

get_spending_summary(t, user_id, month) ==
    LET user_data == filter_month(user_rows(t, user_id), month)
        cats == SortInts({user_data[i].Category : i \in 1..Len(user_data)})
    IN  [k \in 1..Len(cats) |->
            LET g == SelectSeq(user_data, LAMBDA r : r.Category = cats[k])
            IN  [Category    |-> cats[k],
                 total_spent |-> agg_sum([i \in 1..Len(g) |-> g[i].CleanPrice]),
                 num_orders  |-> Cardinality({g[i].OrderID : i \in 1..Len(g)}),
                 num_items   |-> Len(g)]]

get_monthly_trends(t, user_id) ==
    LET user_data == user_rows(t, user_id)
        keys == SortPairs({<<user_data[i].Month, user_data[i].Category>> :
                              i \in 1..Len(user_data)})
    IN  [k \in 1..Len(keys) |->
            LET g == SelectSeq(user_data,
                        LAMBDA r : r.Month = keys[k][1] /\ r.Category = keys[k][2])
            IN  [Month      |-> keys[k][1],
                 Category   |-> keys[k][2],
                 CleanPrice |-> agg_sum([i \in 1..Len(g) |-> g[i].CleanPrice])]]

\* ------------------------------------------------------------ input tables

\* The largest number of products in a bulk table (more than TopN, so that
\* the truncation acts).
MaxBulk == 17

\* min_purchases ranges over -1..MaxMinPurchases.
MaxMinPurchases == 3

\* Total-price texts as they stand in the file.
TextCorrupted == <<"1", "9", ".", "9", "9", "1", "2", "3">>

TextLetters == <<"a", "b", "c">>

TextEmpty == <<>>

TextPlain == <<"1", "2">>

TextDollar == <<"$", "7", ".", "5", "0">>

\* A purchase history: n purchases of one product by one customer, the first
\* on day d0 and the last span days later, the others evenly between.
History(cust, item, cat, n, d0, span, total, base, qty, order) ==
    [cust |-> cust, item |-> item, cat |-> cat, n |-> n, d0 |-> d0,
     span |-> span, total |-> total, base |-> base, qty |-> qty,
     order |-> order]

HistoryRows(h) ==
    [k \in 1..h.n |->
        [CustomerID |-> h.cust,
         OrderID    |-> h.order + (k \div 2),
         Item       |-> h.item,
         Category   |-> h.cat,
         OrderDate  |-> h.d0 + (IF h.n = 1 THEN 0
                                ELSE (h.span * (k - 1)) \div (h.n - 1)),
         Quantity   |-> h.qty,
         BasePrice  |-> h.base,
         TotalPrice |-> h.total]]

Expand(hs) == Flatten([i \in 1..Len(hs) |-> HistoryRows(hs[i])])

\* The histories small tables are made of. The first two are single purchases
\* of the same product, which together make one product bought twice.
Pool ==
    << History(1, 1, 1, 1, 10,  0, TextCorrupted, Num(1999), 1, 100),
       History(1, 1, 1, 1, 40,  0, TextLetters,   NaN,       2, 110),
       History(1, 2, 1, 2, 10, 30, TextLetters,   Num(950),  1, 120),
       History(1, 2, 2, 3,  0, 60, TextEmpty,     Num(500),  3, 130),
       History(1, 3, 2, 2, 20,  0, TextPlain,     Num(1200), 1, 140),
       History(2, 1, 1, 3,  5, 20, TextDollar,    Num(750),  1, 150),
       History(2, 3, 1, 2, 100, 50, TextEmpty,    NaN,       2, 160),
       History(1, 4, 2, 1, 45,  0, TextPlain,     Num(300),  1, 170) >>

SubPool(S) ==
    LET F[i \in 0..Len(Pool)] ==
            IF i = 0 THEN <<>>
            ELSE IF i \in S THEN Append(F[i - 1], Pool[i]) ELSE F[i - 1]
    IN  F[Len(Pool)]

\* n products of customer 1, bought twice or three times, every 20, 25 or 30
\* days: all within the band of a 30-day target, with many ties; and one more
\* product bought once.
Bulk(n) ==
    [i \in 1..(n + 1) |->
        IF i <= n
        THEN History(1, i, 1, 2 + (i % 2), i, (20 + 5 * (i % 3)) * (1 + (i % 2)),
                     TextPlain, Num(1200), 1, 200 + 10 * i)
        ELSE History(1, i, 2, 1, 0, 0, TextPlain, Num(1200), 1, 200 + 10 * i)]

\* Four products bought 11 times over 149, 150, 450 and 451 days: every
\* 14.9, 15.0, 45.0 and 45.1 days.
Boundary ==
    << History(1, 1, 1, 11, 0, 149, TextPlain, Num(1200), 1, 300),
       History(1, 2, 1, 11, 0, 150, TextPlain, Num(1200), 1, 310),
       History(1, 3, 1, 11, 0, 450, TextPlain, Num(1200), 1, 320),
       History(1, 4, 1, 11, 0, 451, TextPlain, Num(1200), 1, 330) >>

RawTables ==
    {Expand(SubPool(S)) : S \in SUBSET (1..Len(Pool))}
        \cup {Expand(Bulk(n)) : n \in (TopN - 1)..MaxBulk}
        \cup {Expand(Boundary)}

\* Customers 1 and 2 occur in tables; customer 3 occurs in none.
Customers == {1, 2, 3}

MonthArgs == {None} \cup {Some(m) : m \in {-1, 0, 1, 2, 13}}

\* Category 0 is the empty string (a request with "category=").
CategoryArgs == {None} \cup {Some(c) : c \in {0, 1, 2}}

MinPurchasesArgs == (-1)..MaxMinPurchases

TargetArgs == {-30, 0, 10, DefaultTargetInterval}

\* ---------------------------------------------------------------- the files

\* The row k of a table with an order date that is no date.
WithBadDate(t, k) == [t EXCEPT ![k].OrderDate = BadDate]

GoodFiles == {[columns |-> AllColumns, rows |-> t] : t \in RawTables}

\* Files that are not what the analyzer expects: one column is missing (the
\* value a row has in a column the file lacks stands for nothing: no request
\* that would read it returns), the file has no column at all, or an order
\* date is no date (in the first row, in the last row).
BadFiles ==
    {[columns |-> AllColumns \ {c}, rows |-> Expand(Pool)] : c \in AllColumns}
        \cup {[columns |-> {}, rows |-> <<>>]}
        \cup {[columns |-> AllColumns, rows |-> WithBadDate(Expand(Pool), k)] :
                k \in {1, Len(Expand(Pool))}}

CsvFiles == GoodFiles \cup BadFiles

\* The files of the runs in which a request is remembered and made again.
TwiceFiles ==
    {[columns |-> AllColumns, rows |-> t] :
        t \in {Expand(Pool), Expand(Bulk(TopN + 1)), Expand(Boundary)}}
        \cup {[columns |-> {}, rows |-> <<>>],
              [columns |-> AllColumns \ {"Category"}, rows |-> Expand(Pool)]}

\* The routes of src/app.py that answer from the analyzer.
DataRoutes ==
    {"users", "categories", "purchases", "recommendations",
     "spending-summary", "monthly-trends"}

\* The columns of the file a method reads (df[...], groupby, agg), besides
\* those process_data made: a column the file lacks raises a KeyError. The
\* routes without a method of the analyzer read none themselves.
Reads(o, a) ==
    CASE o = "get_users" -> {"CustomerID"}
      [] o = "get_categories" -> {"Category"}
      [] o = "get_user_purchases" ->
            {"CustomerID"} \cup (IF Truthy(a.category) THEN {"Category"} ELSE {})
      [] o = "analyze_purchase_patterns" ->
            {"CustomerID", "Item Name", "Category", "Quantity"}
      [] o = "generate_recommendations" ->
            {"CustomerID", "Item Name", "Category", "Quantity"}
      [] o = "get_spending_summary" ->
            {"CustomerID", "Category", "OrderID", "Item Name"}
      [] o = "get_monthly_trends" -> {"CustomerID", "Category"}
      [] OTHER -> {}

\* The requests to the analyzer.
Requests ==
    {[op |-> "get_users", args |-> <<>>], [op |-> "get_categories", args |-> <<>>]}
        \cup {[op |-> "get_user_purchases",
                args |-> [user_id |-> u, month |-> m, category |-> c]] :
                u \in Customers, m \in MonthArgs, c \in CategoryArgs}
        \cup {[op |-> o, args |-> [user_id |-> u]] :
                o \in {"analyze_purchase_patterns", "get_monthly_trends"},
                u \in Customers}
        \cup {[op |-> "generate_recommendations",
                args |-> [user_id |-> u, min_purchases |-> mp,
                          target_interval_days |-> ti]] :
                u \in Customers, mp \in MinPurchasesArgs, ti \in TargetArgs}
        \cup {[op |-> "get_spending_summary",
                args |-> [user_id |-> u, month |-> m]] :
                u \in Customers, m \in MonthArgs}

\* JSON values of a bucket list: a list, a string (its items are its
\* characters), an object (its items are its keys), a number or null.
Json(type, items) == [type |-> type, items |-> items]

JsonList(items) == Json("list", items)

\* Entries of a list: objects with their keys, and a string.
EntryA == [kind |-> "dict", keys |-> {"item"}, name |-> "milk"]

EntryB == [kind |-> "dict", keys |-> {"item", "quantity"}, name |-> "eggs"]

EntryNoItem == [kind |-> "dict", keys |-> {"name"}, name |-> "milk"]

EntryText == [kind |-> "str", keys |-> {}, name |-> "milk"]

Entries == {EntryA, EntryB, EntryNoItem, EntryText}

\* The values a request body gives bucket_list: lists of up to two entries,
\* "", "ab", {}, {"item": ...}, a number and null.
BucketValues ==
    {JsonList(<<>>)}
        \cup {JsonList(<<e>>) : e \in Entries}
        \cup {JsonList(<<e, f>>) : e \in Entries, f \in Entries}
        \cup {Json("str", <<>>), Json("str", <<EntryText, EntryText>>),
              Json("dict", <<>>), Json("dict", <<EntryText>>),
              Json("number", <<>>), Json("null", <<>>)}

\* The bodies of a POST: none that parses as JSON, a JSON list, an object
\* without a bucket_list key, an object with one.
PostBodies ==
    {[kind |-> k, has |-> FALSE, bucket_list |-> JsonList(<<>>)] :
        k \in {"none", "list", "dict"}}
        \cup {[kind |-> "dict", has |-> TRUE, bucket_list |-> v] :
                v \in BucketValues}

\* The customers whose list is posted: one of the table, one unknown to it.
BucketUsers == {1, 3}

\* "isinstance(item, dict) and 'item' in item", for any object.
valid_entry_any_dict(item) == item.kind = "dict"

\* Line 180, negated: isinstance(item, dict) and 'item' in item.
valid_entry(item) == item.kind = "dict" /\ "item" \in item.keys

\* Lines 175-183: what a POST with this body answers and, on success, stores.
\* request.get_json() raising or returning no object, and a bucket_list that
\* cannot be iterated, end in "except Exception" (400).
post(body) ==
    LET bucket_list == IF body.has THEN body.bucket_list ELSE JsonList(<<>>)
    IN  IF body.kind # "dict" THEN [status |-> 400, stored |-> FALSE]
        ELSE IF bucket_list.type \notin {"list", "str", "dict"}
        THEN [status |-> 400, stored |-> FALSE]
        ELSE IF \E i \in 1..Len(bucket_list.items) :
                    ~valid_entry(bucket_list.items[i])
        THEN [status |-> 400, stored |-> FALSE]
        ELSE [status |-> 200, stored |-> TRUE, bucket_list |-> bucket_list]

\* ---------------------------------------------------------- the dashboard

\* The checkboxes of the recommendations tab, at most.
MaxBoxes == 4

RECURSIVE BoolSeqs(_)
BoolSeqs(n) ==
    IF n = 0 THEN {<<>>}
    ELSE BoolSeqs(n - 1)
            \cup {Append(s, b) : s \in {t \in BoolSeqs(n - 1) : Len(t) = n - 1},
                                 b \in BOOLEAN}

\* The values of the checkboxes when the save button is clicked: one for each
\* recommendation shown.
CheckboxValues == BoolSeqs(MaxBoxes)

\* The hidden div before any callback has written it, and as json.dumps
\* writes it.
NoSaved == [json |-> FALSE, items |-> <<>>]

Saved(items) == [json |-> TRUE, items |-> items]

\* src/dashboard.py lines 735-740: the saved item of a recommendation.
saved_item(rec) ==
    [name |-> rec.item, category |-> rec.category, price |-> rec.avg_price,
     reason |-> rec.recommendation_reason]

\* Lines 732-741: the recommendations whose checkbox is set, in their order.
selected_items(checkbox_values, recommendations) ==
    LET F[i \in 0..Len(checkbox_values)] ==
            IF i = 0 THEN <<>>
            ELSE IF checkbox_values[i] /\ i <= Len(recommendations)
            THEN Append(F[i - 1], saved_item(recommendations[i]))
            ELSE F[i - 1]
    IN  F[Len(checkbox_values)]

\* Lines 744-747: existing_names is taken once, before the loop; each selected
\* item whose name is not among them is appended.
add_selected(current_saved, selected) ==
    LET existing_names == {current_saved[i].name : i \in 1..Len(current_saved)}
    IN  current_saved
            \o SelectSeq(selected, LAMBDA item : item.name \notin existing_names)

\* Lines 805-806: current_saved.pop(index_to_remove), indices from 0.
pop(current_saved, index) ==
    IF 0 <= index /\ index < Len(current_saved)
    THEN SubSeq(current_saved, 1, index)
            \o SubSeq(current_saved, index + 2, Len(current_saved))
    ELSE current_saved

NoMemo ==
    [set |-> FALSE, between |-> FALSE, op |-> "none", args |-> <<>>,
     result |-> <<>>]

\* ------------------------------------------------------------ the analyzer

\* src/app.py lines 13-21: the analyzer is built from the file, the table
\* read and cleaned once; when __init__ raises there is no analyzer (and no
\* table). The store of custom lists starts empty.
InitFrom(files) ==
    /\ csv \in files
    /\ analyzer = (IF construct_ok(csv) THEN "ok" ELSE "none")
    /\ df = (IF construct_ok(csv) THEN process_data(csv.rows) ELSE <<>>)
    /\ user_bucket_lists = <<>>
    /\ posted = <<>>
    /\ saved_items = NoSaved
    /\ pc = "idle"
    /\ op = "none"
    /\ args = <<>>
    /\ status = 0
    /\ result = <<>>
    /\ memo = NoMemo

Init == InitFrom(CsvFiles)

\* A request that returns: the file has the columns it reads, and it changes
\* nothing but, were it to write it, the table. Once a request is remembered,
\* memo notes that another request came after it.
Frame(o, a) ==
    /\ Reads(o, a) \subseteq csv.columns
    /\ pc' = "done"
    /\ status' = 200
    /\ memo' = (IF memo.set /\ (memo.op # o \/ memo.args # a)
                THEN [memo EXCEPT !.between = TRUE] ELSE memo)
    /\ UNCHANGED <<csv, analyzer, user_bucket_lists, posted, saved_items>>

\* get_user_purchases replacing the analyzer's table by the customer's rows.
GetUserPurchases_in_place ==
    /\ pc = "idle" /\ analyzer = "ok"
    /\ \E u \in Customers, m \in MonthArgs, c \in CategoryArgs :
        /\ op' = "get_user_purchases"
        /\ args' = [user_id |-> u, month |-> m, category |-> c]
        /\ result' = get_user_purchases(df, u, m, c)
        /\ df' = user_rows(df, u)
        /\ Frame("get_user_purchases",
                 [user_id |-> u, month |-> m, category |-> c])

GetUsers ==
    /\ pc = "idle" /\ analyzer = "ok"
    /\ op' = "get_users"
    /\ args' = <<>>
    /\ result' = get_users(df)
    /\ Frame("get_users", <<>>)
    /\ UNCHANGED df

GetCategories ==
    /\ pc = "idle" /\ analyzer = "ok"
    /\ op' = "get_categories"
    /\ args' = <<>>
    /\ result' = get_categories(df)
    /\ Frame("get_categories", <<>>)
    /\ UNCHANGED df

GetUserPurchases ==
    /\ pc = "idle" /\ analyzer = "ok"
    /\ \E u \in Customers, m \in MonthArgs, c \in CategoryArgs :
        /\ op' = "get_user_purchases"
        /\ args' = [user_id |-> u, month |-> m, category |-> c]
        /\ result' = get_user_purchases(df, u, m, c)
        /\ Frame("get_user_purchases",
                 [user_id |-> u, month |-> m, category |-> c])
    /\ UNCHANGED df

AnalyzePurchasePatterns ==
    /\ pc = "idle" /\ analyzer = "ok"
    /\ \E u \in Customers :
        /\ op' = "analyze_purchase_patterns"
        /\ args' = [user_id |-> u]
        /\ result' = analyze_purchase_patterns(df, u)
        /\ Frame("analyze_purchase_patterns", [user_id |-> u])
    /\ UNCHANGED df

GenerateRecommendations ==
    /\ pc = "idle" /\ analyzer = "ok"
    /\ \E u \in Customers, mp \in MinPurchasesArgs, ti \in TargetArgs :
        /\ op' = "generate_recommendations"
        /\ args' = [user_id |-> u, min_purchases |-> mp,
                    target_interval_days |-> ti]
        /\ result' = generate_recommendations(df, u, mp, ti)
        /\ Frame("generate_recommendations",
                 [user_id |-> u, min_purchases |-> mp,
                  target_interval_days |-> ti])
    /\ UNCHANGED df

\* get_spending_summary replacing the analyzer's table by the rows it selects.
GetSpendingSummary_in_place ==
    /\ pc = "idle" /\ analyzer = "ok"
    /\ \E u \in Customers, m \in MonthArgs :
        /\ op' = "get_spending_summary"
        /\ args' = [user_id |-> u, month |-> m]
        /\ result' = get_spending_summary(df, u, m)
        /\ df' = filter_month(user_rows(df, u), m)
        /\ Frame("get_spending_summary", [user_id |-> u, month |-> m])

GetSpendingSummary ==
    /\ pc = "idle" /\ analyzer = "ok"
    /\ \E u \in Customers, m \in MonthArgs :
        /\ op' = "get_spending_summary"
        /\ args' = [user_id |-> u, month |-> m]
        /\ result' = get_spending_summary(df, u, m)
        /\ Frame("get_spending_summary", [user_id |-> u, month |-> m])
    /\ UNCHANGED df

GetMonthlyTrends ==
    /\ pc = "idle" /\ analyzer = "ok"
    /\ \E u \in Customers :
        /\ op' = "get_monthly_trends"
        /\ args' = [user_id |-> u]
        /\ result' = get_monthly_trends(df, u)
        /\ Frame("get_monthly_trends", [user_id |-> u])
    /\ UNCHANGED df

\* "if not analyzer: return jsonify({"error": ...}), 500" of the six routes
\* that answer from the analyzer.
RouteUnavailable ==
    /\ pc = "idle" /\ analyzer = "none"
    /\ \E r \in DataRoutes :
        /\ op' = "unavailable"
        /\ args' = [route |-> r]
    /\ result' = <<>>
    /\ pc' = "done"
    /\ status' = 500
    /\ UNCHANGED <<csv, analyzer, df, user_bucket_lists, posted, saved_items, memo>>

\* A method raises a KeyError: its route answers 500 (the "except Exception"
\* of src/app.py), and nothing is changed.
RequestFails ==
    /\ pc = "idle" /\ analyzer = "ok"
    /\ \E rq \in Requests :
        /\ ~(Reads(rq.op, rq.args) \subseteq csv.columns)
        /\ op' = "error"
        /\ args' = rq
        /\ memo' = (IF memo.set /\ (memo.op # "error" \/ memo.args # rq)
                    THEN [memo EXCEPT !.between = TRUE] ELSE memo)
    /\ result' = <<>>
    /\ pc' = "done"
    /\ status' = 500
    /\ UNCHANGED <<csv, analyzer, df, user_bucket_lists, posted, saved_items>>

\* manage_bucket_list, GET (src/app.py lines 149-170): the customer's custom
\* list; the recommendations when there is none, there is an analyzer and
\* generate_recommendations does not raise ("except: pass").
BucketListGet ==
    /\ pc = "idle"
    /\ \E u \in Customers :
        LET custom_list ==
                IF u \in DOMAIN user_bucket_lists THEN user_bucket_lists[u]
                ELSE JsonList(<<>>)
        IN  /\ op' = "bucket_list_get"
            /\ args' = [user_id |-> u]
            /\ result' =
                IF /\ custom_list.items = <<>>
                   /\ analyzer = "ok"
                   /\ Reads("generate_recommendations", <<>>) \subseteq csv.columns
                THEN [bucket_list |->
                        JsonList(generate_recommendations(df, u,
                            DefaultMinPurchases, DefaultTargetInterval)),
                      type |-> "ai_generated"]
                ELSE [bucket_list |-> custom_list,
                      type |-> IF custom_list.items # <<>> THEN "custom"
                               ELSE "empty"]
            /\ Frame("bucket_list_get", [user_id |-> u])
    /\ UNCHANGED df

\* The POST replacing the whole store by the customer's list.
BucketListPost_replace_store ==
    /\ pc = "idle"
    /\ \E u \in BucketUsers, body \in PostBodies :
        /\ op' = "bucket_list_post"
        /\ args' = [user_id |-> u, body |-> body]
        /\ status' = post(body).status
        /\ IF post(body).stored
           THEN /\ user_bucket_lists' = [v \in {u} |-> post(body).bucket_list]
                /\ posted' =
                    [v \in DOMAIN posted \cup {u} |->
                        IF v = u THEN body.bucket_list ELSE posted[v]]
                /\ result' = [bucket_list |-> post(body).bucket_list,
                              count |-> Len(post(body).bucket_list.items)]
           ELSE /\ result' = <<>>
                /\ UNCHANGED <<user_bucket_lists, posted>>
    /\ pc' = "done"
    /\ UNCHANGED <<csv, analyzer, df, saved_items, memo>>

\* manage_bucket_list, POST (src/app.py lines 172-193): a body that passes the
\* validation replaces the customer's list.
BucketListPost ==
    /\ pc = "idle"
    /\ \E u \in BucketUsers, body \in PostBodies :
        /\ op' = "bucket_list_post"
        /\ args' = [user_id |-> u, body |-> body]
        /\ status' = post(body).status
        /\ IF post(body).stored
           THEN /\ user_bucket_lists' =
                    [v \in DOMAIN user_bucket_lists \cup {u} |->
                        IF v = u THEN post(body).bucket_list
                        ELSE user_bucket_lists[v]]
                /\ posted' =
                    [v \in DOMAIN posted \cup {u} |->
                        IF v = u THEN body.bucket_list ELSE posted[v]]
                /\ result' = [bucket_list |-> post(body).bucket_list,
                              count |-> Len(post(body).bucket_list.items)]
           ELSE /\ result' = <<>>
                /\ UNCHANGED <<user_bucket_lists, posted>>
    /\ pc' = "done"
    /\ UNCHANGED <<csv, analyzer, df, saved_items, memo>>

\* health_check (src/app.py lines 195-201).
HealthCheck ==
    /\ pc = "idle"
    /\ op' = "health_check"
    /\ args' = <<>>
    /\ result' = [status |-> "healthy", analyzer_available |-> analyzer # "none"]
    /\ Frame("health_check", <<>>)
    /\ UNCHANGED df

\* The caller takes the result; nothing of the request is kept.
Return ==
    /\ pc = "done"
    /\ pc' = "idle"
    /\ op' = "none"
    /\ args' = <<>>
    /\ status' = 0
    /\ result' = <<>>
    /\ UNCHANGED <<csv, analyzer, df, user_bucket_lists, posted, saved_items, memo>>

Next ==
    \/ GetUsers
    \/ GetCategories
    \/ GetUserPurchases
    \/ AnalyzePurchasePatterns
    \/ GenerateRecommendations
    \/ GetSpendingSummary
    \/ GetMonthlyTrends
    \/ RouteUnavailable
    \/ RequestFails
    \/ BucketListGet
    \/ HealthCheck
    \/ Return

Spec == Init /\ [][Next]_vars

\* A caller remembers the request just served and its result, once.
Remember ==
    /\ pc = "done" /\ ~memo.set
    /\ memo' = [set |-> TRUE, between |-> FALSE, op |-> op, args |-> args,
                result |-> result]
    /\ UNCHANGED <<csv, analyzer, df, user_bucket_lists, posted, saved_items,
                   pc, op, args, status, result>>

\* The files of the runs with the bucket-list routes: one the analyzer is
\* built from, one it is not, one it is built from and fails on.
BucketFiles ==
    {[columns |-> AllColumns, rows |-> Expand(Pool)],
     [columns |-> {}, rows |-> <<>>],
     [columns |-> AllColumns \ {"Quantity"}, rows |-> Expand(Pool)]}

InitBucket == InitFrom(BucketFiles)

NextBucket == BucketListGet \/ BucketListPost \/ Return

\* The runs with the bucket-list routes.
SpecBucket == InitBucket /\ [][NextBucket]_vars

\* What the dashboard gets from the route /users/<user_id>/recommendations
\* (src/dashboard.py lines 19-28 and 728-729): the recommendations of the
\* default criteria, none when the route answers with an error.
api_recommendations(u) ==
    IF analyzer = "ok" /\ Reads("generate_recommendations", <<>>) \subseteq csv.columns
    THEN generate_recommendations(df, u, DefaultMinPurchases, DefaultTargetInterval)
    ELSE <<>>

\* A callback of the dashboard returns; the service is left as it is.
FrameDashboard ==
    /\ pc' = "done"
    /\ status' = 0
    /\ UNCHANGED <<csv, analyzer, df, user_bucket_lists, posted, memo>>

\* save_selected_items (src/dashboard.py lines 714-762). The customer 0 is
\* no customer chosen in the dropdown.
SaveSelectedItems ==
    /\ pc = "idle"
    /\ \E n_clicks \in {0, 1}, u \in Customers \cup {0},
          checkbox_values \in CheckboxValues :
        LET selected == selected_items(checkbox_values, api_recommendations(u))
        IN  /\ op' = "save_selected_items"
            /\ args' = [n_clicks |-> n_clicks, user_id |-> u,
                        checkbox_values |-> checkbox_values]
            /\ IF n_clicks = 0 \/ u = 0
               THEN /\ result' = "no_update"
                    /\ UNCHANGED saved_items
               ELSE /\ saved_items' =
                        Saved(add_selected(saved_items.items, selected))
                    /\ result' =
                        (IF selected # <<>> THEN "success" ELSE "warning")
    /\ FrameDashboard

\* remove_saved_item (lines 783-808): the button of a row is clicked.
RemoveSavedItem ==
    /\ pc = "idle"
    /\ \E index_to_remove \in 0..MaxBoxes :
        /\ op' = "remove_saved_item"
        /\ args' = [index |-> index_to_remove]
        /\ IF ~saved_items.json
           THEN /\ result' = "no_update"
                /\ UNCHANGED saved_items
           ELSE /\ saved_items' = Saved(pop(saved_items.items, index_to_remove))
                /\ result' = "updated"
    /\ FrameDashboard

\* clear_all_saved_items (lines 816-820).
ClearAllSavedItems ==
    /\ pc = "idle"
    /\ \E n_clicks \in {0, 1} :
        /\ op' = "clear_all_saved_items"
        /\ args' = [n_clicks |-> n_clicks]
        /\ IF n_clicks = 0
           THEN /\ result' = "no_update"
                /\ UNCHANGED saved_items
           ELSE /\ saved_items' = Saved(<<>>)
                /\ result' = "updated"
    /\ FrameDashboard

\* The files of the runs with the dashboard's saved list.
SavedFiles ==
    {[columns |-> AllColumns, rows |-> Expand(Pool)],
     [columns |-> {}, rows |-> <<>>]}

InitSaved == InitFrom(SavedFiles)

NextSaved ==
    SaveSelectedItems \/ RemoveSavedItem \/ ClearAllSavedItems \/ Return

\* The runs with the dashboard's saved list.
SpecSaved == InitSaved /\ [][NextSaved]_vars

InitTwice == InitFrom(TwiceFiles)

NextTwice == Next \/ Remember

\* The runs in which a request is remembered and made again.
SpecTwice == InitTwice /\ [][NextTwice]_vars

\* ------------------------------------------------- vocabulary of the claims

Done(o) == pc = "done" /\ op = o

\* n1/d1 <= n2/d2 for positive denominators.
RatLeq(n1, d1, n2, d2) == n1 * d2 <= n2 * d1

\* The stated filter criterion of a product-aggregate row.
Criterion(row, mp, ti) ==
    /\ row.purchase_count >= mp
    /\ row.avg_interval.num > 0
    /\ RatLeq(ti, 2, row.avg_interval.num, row.avg_interval.den)
    /\ RatLeq(row.avg_interval.num, row.avg_interval.den, 3 * ti, 2)

\* The stated sort key (-purchase_count, avg_interval), strictly and equal.
KeyLess(a, b) ==
    \/ a.purchase_count > b.purchase_count
    \/ /\ a.purchase_count = b.purchase_count
       /\ ~RatLeq(b.avg_interval.num, b.avg_interval.den,
                  a.avg_interval.num, a.avg_interval.den)

KeyEqual(a, b) == ~KeyLess(a, b) /\ ~KeyLess(b, a)

\* The entry e is the entry of the aggregate row.
EntryOf(e, row) == e.item = row.Item /\ e.category = row.Category

Returned(row, res) == \E i \in 1..Len(res) : EntryOf(res[i], row)

\* The aggregate rows of the customer of the current request.
Analysis == analyze_purchase_patterns(df, args.user_id)

\* The aggregate row an entry stands for.
RowOf(e) == Analysis[CHOOSE k \in 1..Len(Analysis) : EntryOf(e, Analysis[k])]

\* C1: every entry of generate_recommendations is the entry of an aggregate
\* row of the customer that satisfies the criterion, and every aggregate row
\* that satisfies it is returned unless TopN rows, none of which sorts after
\* it, were returned.
C1_FilterCriterion ==
    Done("generate_recommendations") =>
        /\ \A i \in 1..Len(result) :
            \E k \in 1..Len(Analysis) :
                /\ EntryOf(result[i], Analysis[k])
                /\ Criterion(Analysis[k], args.min_purchases,
                             args.target_interval_days)
        /\ \A k \in 1..Len(Analysis) :
            Criterion(Analysis[k], args.min_purchases, args.target_interval_days)
                => \/ Returned(Analysis[k], result)
                   \/ /\ Len(result) = TopN
                      /\ \A i \in 1..Len(result) :
                            ~KeyLess(Analysis[k], RowOf(result[i]))

\* A request returned TopN entries and left out a row that satisfies the
\* criterion, and another row that does not.
C1_Witness ==
    /\ Done("generate_recommendations")
    /\ Len(result) = TopN
    /\ \E k \in 1..Len(Analysis) :
        /\ Criterion(Analysis[k], args.min_purchases, args.target_interval_days)
        /\ ~Returned(Analysis[k], result)
    /\ \E k \in 1..Len(Analysis) :
        ~Criterion(Analysis[k], args.min_purchases, args.target_interval_days)

\* The rows that satisfy the criterion of the current request, in the order of
\* the aggregation.
Filtered ==
    SelectSeq(Analysis,
        LAMBDA row : Criterion(row, args.min_purchases, args.target_interval_days))

\* The place of the k-th filtered row in the sorted order: one more than the
\* number of filtered rows with a smaller key, or with the same key and an
\* earlier place in the aggregation.
Rank(k) ==
    1 + Cardinality({j \in 1..Len(Filtered) :
                        \/ KeyLess(Filtered[j], Filtered[k])
                        \/ KeyEqual(Filtered[j], Filtered[k]) /\ j < k})

\* C2: generate_recommendations returns at most TopN entries: the filtered
\* rows of the TopN first places of the sorted order, in that order (all of
\* them when there are fewer).
C2_TopAfterSort ==
    Done("generate_recommendations") =>
        /\ Len(result) <= TopN
        /\ Len(result) = (IF Len(Filtered) < TopN THEN Len(Filtered) ELSE TopN)
        /\ \A k \in 1..Len(Filtered) :
            Rank(k) <= TopN => EntryOf(result[Rank(k)], Filtered[k])

\* More than TopN rows passed the filter, and a row among the TopN first of
\* the aggregation was not returned: the cut came after the sort.
C2_Witness ==
    /\ Done("generate_recommendations")
    /\ Len(Filtered) > TopN
    /\ Len(result) = TopN
    /\ \E k \in 1..TopN : ~Returned(Filtered[k], result)

\* Two consecutive entries are in strict order of (-purchase_count,
\* avg_interval).
StrictlyOrdered(res) ==
    \A i \in 1..(Len(res) - 1) : KeyLess(RowOf(res[i]), RowOf(res[i + 1]))

\* Two consecutive entries are in order of (-purchase_count, avg_interval),
\* ties allowed.
Ordered(res) ==
    \A i \in 1..(Len(res) - 1) : ~KeyLess(RowOf(res[i + 1]), RowOf(res[i]))

\* C3 as stated: the output of generate_recommendations is strictly sorted by
\* (-purchase_count, avg_interval), so that no two entries share both.
C3_StrictlySorted == Done("generate_recommendations") => StrictlyOrdered(result)

\* C3 amended: the output of generate_recommendations is sorted by
\* (-purchase_count, avg_interval): of two consecutive entries the earlier has
\* the larger purchase_count, or the same and an avg_interval that is not
\* larger.
C3_Sorted == Done("generate_recommendations") => Ordered(result)

\* Two consecutive entries have the same purchase_count and avg_interval, and
\* two others differ in avg_interval alone.
C3_Witness ==
    /\ Done("generate_recommendations")
    /\ \E i \in 1..(Len(result) - 1) :
        KeyEqual(RowOf(result[i]), RowOf(result[i + 1]))
    /\ \E i \in 1..(Len(result) - 1) :
        /\ RowOf(result[i]).purchase_count = RowOf(result[i + 1]).purchase_count
        /\ KeyLess(RowOf(result[i]), RowOf(result[i + 1]))

\* The products (item, category) the customer bought exactly once, read from
\* the table.
BoughtOnce(user_id) ==
    {key \in {<<df[i].Item, df[i].Category>> : i \in 1..Len(df)} :
        Cardinality({i \in 1..Len(df) :
            /\ df[i].CustomerID = user_id
            /\ df[i].Item = key[1]
            /\ df[i].Category = key[2]}) = 1}

\* C4: the aggregate row of a product bought exactly once has avg_interval 0,
\* not a missing value, and generate_recommendations never returns the
\* product, whatever min_purchases and target_interval_days.
C4_SinglePurchase ==
    /\ Done("analyze_purchase_patterns") =>
        \A k \in 1..Len(result) :
            <<result[k].Item, result[k].Category>> \in BoughtOnce(args.user_id)
                => /\ result[k].purchase_count = 1
                   /\ ~result[k].avg_interval.nan
                   /\ result[k].avg_interval.num = 0
                   /\ result[k].avg_interval.den > 0
    /\ Done("generate_recommendations") =>
        \A i \in 1..Len(result) :
            <<result[i].item, result[i].category>> \notin BoughtOnce(args.user_id)

\* A request with min_purchases <= 1 for a customer with a product bought
\* once returned other products.
C4_Witness ==
    /\ Done("generate_recommendations")
    /\ args.min_purchases <= 1
    /\ BoughtOnce(args.user_id) # {}
    /\ result # <<>>

\* The place of the first "." of a text (one past its end when it has none).
FirstDot(s) == Min({i \in 1..Len(s) : s[i] = "."} \cup {Len(s) + 1})

\* A decimal value followed by spurious digits: digits, one ".", and three
\* digits or more.
DecimalWithSuffix(s) ==
    /\ FirstDot(s) > 1
    /\ Len(s) >= FirstDot(s) + 3
    /\ \A i \in 1..Len(s) : i # FirstDot(s) => s[i] \in Digits

\* The integer part and the first two fractional digits of such a text, in
\* cents.
RepairedCents(s) ==
    100 * DigitsValue(SubSeq(s, 1, FirstDot(s) - 1), 0)
        + 10 * DigitVal(s[FirstDot(s) + 1]) + DigitVal(s[FirstDot(s) + 2])

\* C5: a total-price text made of a decimal value followed by spurious digits
\* ("19.99123") is normalized to the integer part plus the first fractional
\* group (19.99): the cents are kept in CleanPrice.
C5_RepairKeepsCents ==
    \A i \in 1..Len(df) :
        DecimalWithSuffix(df[i].TotalPrice)
            => df[i].CleanPrice = Num(RepairedCents(df[i].TotalPrice))

\* The repair leaves nothing to parse: the text has no digit before its first
\* "." (empty and "abc" among them).
Unparseable(s) == \A i \in 1..(FirstDot(s) - 1) : s[i] \notin Digits

\* Sum and count of the clean prices that are present.
PresentTotal(rows) ==
    SeqSum([i \in 1..Len(rows) |->
                IF rows[i].CleanPrice.nan THEN 0 ELSE rows[i].CleanPrice.v])

PresentCount(rows) ==
    Cardinality({i \in 1..Len(rows) : ~rows[i].CleanPrice.nan})

\* The rows a spending summary of the current request is computed from.
SummaryRows == get_user_purchases(df, args.user_id, args.month, None)

\* C6: a row whose total-price cannot be parsed after the repair has its base
\* price as CleanPrice; CleanPrice is missing only if the total-price cannot be
\* parsed and the base price is missing; a row with a missing CleanPrice adds
\* 0 to every sum (get_spending_summary, get_monthly_trends) and is left out
\* of every mean (avg_price).
C6_PriceFallback ==
    /\ \A i \in 1..Len(df) :
        /\ Unparseable(df[i].TotalPrice) => df[i].CleanPrice = df[i].BasePrice
        /\ df[i].CleanPrice.nan =>
                Unparseable(df[i].TotalPrice) /\ df[i].BasePrice.nan
    /\ Done("get_spending_summary") =>
        \A k \in 1..Len(result) :
            result[k].total_spent =
                PresentTotal(SelectSeq(SummaryRows,
                    LAMBDA r : r.Category = result[k].Category))
    /\ Done("get_monthly_trends") =>
        \A k \in 1..Len(result) :
            result[k].CleanPrice =
                PresentTotal(SelectSeq(df,
                    LAMBDA r : /\ r.CustomerID = args.user_id
                               /\ r.Month = result[k].Month
                               /\ r.Category = result[k].Category))
    /\ Done("analyze_purchase_patterns") =>
        \A k \in 1..Len(result) :
            LET g == SelectSeq(df,
                        LAMBDA r : /\ r.CustomerID = args.user_id
                                   /\ r.Item = result[k].Item
                                   /\ r.Category = result[k].Category)
            IN  result[k].avg_price =
                    (IF PresentCount(g) = 0 THEN NaN
                     ELSE Num(RoundHalfEven(PresentTotal(g), PresentCount(g))))

\* A spending summary was computed from a row that fell back to its base
\* price and a row whose CleanPrice is missing.
C6_Witness ==
    /\ Done("get_spending_summary")
    /\ result # <<>>
    /\ \E i \in 1..Len(SummaryRows) :
        /\ Unparseable(SummaryRows[i].TotalPrice)
        /\ ~SummaryRows[i].BasePrice.nan
    /\ \E i \in 1..Len(SummaryRows) : SummaryRows[i].CleanPrice.nan

\* C7: a month outside 1..12 (0, negative, 13 and more) given to
\* get_user_purchases or get_spending_summary yields an empty result.
C7_MonthOutOfRangeEmpty ==
    (/\ Done("get_user_purchases") \/ Done("get_spending_summary")
     /\ ~args.month.none
     /\ args.month.v \notin 1..12)
        => result = <<>>

\* C8: generate_recommendations with target_interval_days <= 0 returns the
\* empty list, for every customer and every min_purchases.
C8_NonPositiveTarget ==
    Done("generate_recommendations") /\ args.target_interval_days <= 0
        => result = <<>>

\* A request with target_interval_days <= 0 for a customer with a product
\* bought several times on one day (avg_interval 0) returned nothing.
C8_Witness ==
    /\ Done("generate_recommendations")
    /\ args.target_interval_days <= 0
    /\ \E k \in 1..Len(Analysis) :
        /\ Analysis[k].purchase_count >= 2
        /\ Analysis[k].purchase_count >= args.min_purchases
        /\ Analysis[k].avg_interval.num = 0
    /\ result = <<>>

\* The customer of the current request has no row in the table.
UnknownCustomer ==
    /\ op \in {"get_user_purchases", "analyze_purchase_patterns",
               "generate_recommendations", "get_spending_summary",
               "get_monthly_trends"}
    /\ \A i \in 1..Len(df) : df[i].CustomerID # args.user_id

\* C9: for a customer absent from the table every per-customer operation
\* returns an empty sequence, whatever the optional arguments.
C9_UnknownCustomerEmpty == pc = "done" /\ UnknownCustomer => result = <<>>

\* A request with a month and a category for a customer absent from a table
\* that has rows returned nothing.
C9_Witness ==
    /\ Done("get_user_purchases")
    /\ UnknownCustomer
    /\ df # <<>>
    /\ \E i \in 1..Len(df) :
        Some(df[i].Month) = args.month /\ Some(df[i].Category) = args.category
    /\ result = <<>>

\* The row's avg_interval is x tenths of a day.
IntervalTenths(row, x) == 10 * row.avg_interval.num = x * row.avg_interval.den

\* C10: with target_interval_days = 30, a product with purchase_count >=
\* min_purchases and avg_interval 15.0 is returned (when fewer than TopN
\* entries are), one with 14.9 is not, one with 45.0 is, one with 45.1 is not.
C10_BandInclusive ==
    Done("generate_recommendations") /\ args.target_interval_days = 30 =>
        \A k \in 1..Len(Analysis) :
            Analysis[k].purchase_count >= args.min_purchases =>
                /\ IntervalTenths(Analysis[k], 150) /\ Len(result) < TopN
                        => Returned(Analysis[k], result)
                /\ IntervalTenths(Analysis[k], 149)
                        => ~Returned(Analysis[k], result)
                /\ IntervalTenths(Analysis[k], 450) /\ Len(result) < TopN
                        => Returned(Analysis[k], result)
                /\ IntervalTenths(Analysis[k], 451)
                        => ~Returned(Analysis[k], result)

\* A request with target 30 for a customer with products bought every 14.9,
\* 15.0, 45.0 and 45.1 days returned the two of 15.0 and 45.0.
C10_Witness ==
    /\ Done("generate_recommendations")
    /\ args.target_interval_days = 30
    /\ \A x \in {149, 150, 450, 451} :
        \E k \in 1..Len(Analysis) :
            /\ IntervalTenths(Analysis[k], x)
            /\ Analysis[k].purchase_count >= args.min_purchases
    /\ Len(result) = 2
    /\ \A i \in 1..Len(result) :
        result[i].avg_interval_days \in {150, 450}

\* C11: generate_recommendations with a min_purchases below 1 returns the list
\* it returns with min_purchases = 1, for every customer and target.
C11_MinPurchasesClamped ==
    Done("generate_recommendations") /\ args.min_purchases < 1 =>
        result = generate_recommendations(df, args.user_id, 1,
                                          args.target_interval_days)

\* A request with min_purchases below 1 for a customer with a product bought
\* once returned other products.
C11_Witness ==
    /\ Done("generate_recommendations")
    /\ args.min_purchases < 1
    /\ BoughtOnce(args.user_id) # {}
    /\ result # <<>>

\* C12: the total_spent values of get_spending_summary(customer, month),
\* summed over the categories, are the sum of CleanPrice over the records of
\* get_user_purchases(customer, month), a missing CleanPrice counting 0; for
\* every customer and every month argument, none included.
C12_SummaryRoundTrip ==
    Done("get_spending_summary") =>
        SeqSum([k \in 1..Len(result) |-> result[k].total_spent])
            = PresentTotal(get_user_purchases(df, args.user_id, args.month, None))

\* A summary of one month, of several categories, one of its records without
\* a CleanPrice, while the customer has records in other months.
C12_Witness ==
    /\ Done("get_spending_summary")
    /\ args.month.v \in 1..12 /\ ~args.month.none
    /\ Len(result) >= 2
    /\ \E i \in 1..Len(SummaryRows) : SummaryRows[i].CleanPrice.nan
    /\ \E i \in 1..Len(df) :
        df[i].CustomerID = args.user_id /\ df[i].Month # args.month.v

\* The rows of the table of one product of the current request's customer.
ProductRows(item, category) ==
    SelectSeq(df, LAMBDA r : /\ r.CustomerID = args.user_id
                             /\ r.Item = item
                             /\ r.Category = category)

\* C13: in every row of analyze_purchase_patterns avg_interval is neither
\* missing nor negative: it is days_span / (purchase_count - 1) when
\* purchase_count > 1 and 0 when purchase_count = 1, where days_span =
\* last_purchase - first_purchase >= 0.
C13_AvgInterval ==
    Done("analyze_purchase_patterns") =>
        \A k \in 1..Len(result) :
            LET row == result[k]
                g == ProductRows(row.Item, row.Category)
            IN  /\ row.purchase_count = Len(g)
                /\ row.first_purchase = Min({g[i].OrderDate : i \in 1..Len(g)})
                /\ row.last_purchase = Max({g[i].OrderDate : i \in 1..Len(g)})
                /\ row.days_span = row.last_purchase - row.first_purchase
                /\ row.days_span >= 0
                /\ ~row.avg_interval.nan
                /\ row.avg_interval.den > 0
                /\ row.avg_interval.num >= 0
                /\ row.purchase_count > 1 =>
                        row.avg_interval.num * (row.purchase_count - 1)
                            = row.days_span * row.avg_interval.den
                /\ row.purchase_count = 1 => row.avg_interval.num = 0

\* An analysis with a product bought once, one bought three times or more
\* over some days, and one bought several times on one day.
C13_Witness ==
    /\ Done("analyze_purchase_patterns")
    /\ \E k \in 1..Len(result) : result[k].purchase_count = 1
    /\ \E k \in 1..Len(result) :
        result[k].purchase_count >= 3 /\ result[k].days_span > 0
    /\ \E k \in 1..Len(result) :
        result[k].purchase_count >= 2 /\ result[k].days_span = 0

LoadFails ==
    \/ ~(AllColumns \subseteq csv.columns)
    \/ \E i \in 1..Len(csv.rows) : csv.rows[i].OrderDate = BadDate

\* C16: when loading or normalization fails (a required column is missing, an
\* order date of some row cannot be parsed) there is no analyzer; an analyzer
\* there is has the fully normalized table.
C16_AllOrNothing ==
    /\ LoadFails => analyzer = "none" /\ df = <<>>
    /\ analyzer = "ok" => df = process_data(csv.rows)

\* What holds of __init__: there is no analyzer when a column process_data
\* reads is missing or an order date is no date; a file lacking another
\* column gives an analyzer, whose requests reading that column fail.
C16_InitColumnsOnly ==
    /\ (~(InitColumns \subseteq csv.columns)
            \/ \E i \in 1..Len(csv.rows) : csv.rows[i].OrderDate = BadDate)
        => analyzer = "none" /\ df = <<>>
    /\ analyzer = "ok" => df = process_data(csv.rows)
    /\ (pc = "done" /\ op = "error") => LoadFails /\ status = 500

\* C17: without an analyzer no route answers with a success: the routes that
\* serve data (users, categories, purchases, recommendations,
\* spending-summary, monthly-trends, bucket-list) and the health check all
\* answer with an error status.
C17_UnavailableEverywhere ==
    (analyzer = "none" /\ pc = "done") => status # 200

\* What holds without an analyzer: the six routes that call the analyzer
\* answer 500; the health check answers 200 "healthy" and the bucket list 200
\* with an empty list.
C17_DataRoutesUnavailable ==
    (analyzer = "none" /\ pc = "done") =>
        /\ op \in {"unavailable", "bucket_list_get", "health_check"}
        /\ op = "unavailable" => status = 500 /\ result = <<>>
        /\ op = "health_check" =>
                /\ status = 200
                /\ result = [status |-> "healthy", analyzer_available |-> FALSE]
        /\ op = "bucket_list_get" =>
                /\ status = 200
                /\ result = [bucket_list |-> JsonList(<<>>), type |-> "empty"]

\* The columns of the file in a row of the cleaned table.
RawColumns(r) ==
    [CustomerID |-> r.CustomerID, OrderID |-> r.OrderID, Item |-> r.Item,
     Category |-> r.Category, OrderDate |-> r.OrderDate,
     Quantity |-> r.Quantity, BasePrice |-> r.BasePrice,
     TotalPrice |-> r.TotalPrice]

\* C18: the cleaned table has one row for each record of the file, in the
\* file's order, whatever the total-price and base-price fields hold: no
\* record is dropped, none is duplicated.
C18_RowCountPreserved ==
    analyzer = "ok" =>
        /\ Len(df) = Len(csv.rows)
        /\ \A i \in 1..Len(df) : RawColumns(df[i]) = csv.rows[i]

\* A cleaned table with a row whose total-price was repaired, one whose
\* total-price cannot be parsed and has the base price instead, and one left
\* without a clean price.
C18_Witness ==
    /\ analyzer = "ok"
    /\ \E i \in 1..Len(df) : DecimalWithSuffix(df[i].TotalPrice)
    /\ \E i \in 1..Len(df) :
        Unparseable(df[i].TotalPrice) /\ ~df[i].CleanPrice.nan
    /\ \E i \in 1..Len(df) : df[i].CleanPrice.nan

\* The records the stated filters select: of the customer, of the month when
\* one is supplied, of the category when one is supplied.
Matching(user_id, month, category) ==
    SelectSeq(df, LAMBDA r : /\ r.CustomerID = user_id
                             /\ ~month.none => r.Month = month.v
                             /\ ~category.none => r.Category = category.v)

\* C19: get_user_purchases(customer, month, category) returns exactly the
\* records of the customer whose month is the supplied month (in 1..12) and
\* whose category is the supplied category (any string), each filter applied
\* only when supplied.
C19_PurchasesExact ==
    Done("get_user_purchases") /\ (args.month.none \/ args.month.v \in 1..12)
        => result = Matching(args.user_id, args.month, args.category)

\* C19 for the categories that are not the empty string.
C19_PurchasesExactNonEmpty ==
    (/\ Done("get_user_purchases")
     /\ args.month.none \/ args.month.v \in 1..12
     /\ args.category.none \/ args.category.v # 0)
        => result = Matching(args.user_id, args.month, args.category)

\* The rows of one month and category of the current request's customer.
TrendRows(month, category) ==
    SelectSeq(df, LAMBDA r : /\ r.CustomerID = args.user_id
                             /\ r.Month = month
                             /\ r.Category = category)

\* C20: get_monthly_trends returns one row for each (month, category) pair of
\* the customer's records and none for another pair; a row's value is the sum
\* of CleanPrice over the pair's records, and the values add up to the
\* customer's total CleanPrice.
C20_MonthlyTrends ==
    Done("get_monthly_trends") =>
        /\ \A i \in 1..Len(df) :
            df[i].CustomerID = args.user_id =>
                Cardinality({k \in 1..Len(result) :
                    /\ result[k].Month = df[i].Month
                    /\ result[k].Category = df[i].Category}) = 1
        /\ \A k \in 1..Len(result) :
            /\ TrendRows(result[k].Month, result[k].Category) # <<>>
            /\ result[k].CleanPrice
                = PresentTotal(TrendRows(result[k].Month, result[k].Category))
        /\ SeqSum([k \in 1..Len(result) |-> result[k].CleanPrice])
            = PresentTotal(user_rows(df, args.user_id))

\* Trends of a customer with one category in two months and a pair of month
\* and category, each of which occurs, that has no record and no row.
C20_Witness ==
    /\ Done("get_monthly_trends")
    /\ \E j, k \in 1..Len(result) :
        /\ result[j].Category = result[k].Category
        /\ result[j].Month # result[k].Month
    /\ \E j, k \in 1..Len(result) :
        /\ TrendRows(result[j].Month, result[k].Category) = <<>>
        /\ \A i \in 1..Len(result) :
            ~(result[i].Month = result[j].Month
                /\ result[i].Category = result[k].Category)

\* The values of a sequence, and a sequence in strictly ascending order.
Values(s) == {s[k] : k \in 1..Len(s)}

Ascending(s) == \A k \in 1..(Len(s) - 1) : s[k] < s[k + 1]

\* C21: get_users and get_categories return every customer id, every
\* category of the cleaned table, each once, in ascending order, and nothing
\* that is not in the table.
C21_ListsSortedUnique ==
    /\ Done("get_users") =>
        /\ Ascending(result)
        /\ Values(result) = {df[i].CustomerID : i \in 1..Len(df)}
    /\ Done("get_categories") =>
        /\ Ascending(result)
        /\ Values(result) = {df[i].Category : i \in 1..Len(df)}

\* The customers of a table where each has several rows and the greater id
\* comes first.
C21_Witness ==
    /\ Done("get_users")
    /\ Len(result) = 2
    /\ Len(df) > 3
    /\ df[1].CustomerID > df[Len(df)].CustomerID

\* The records of the customer of the current request.
CustomerRows == SelectSeq(df, LAMBDA r : r.CustomerID = args.user_id)

\* C22: analyze_purchase_patterns partitions the customer's records: one row
\* for each (item name, category) pair of the customer's records and no
\* other, each with purchase_count >= 1, total_quantity the sum of the group's
\* quantities and first_purchase <= last_purchase; the purchase_counts add up
\* to the number of the customer's records.
C22_Partition ==
    Done("analyze_purchase_patterns") =>
        LET pairs == {<<CustomerRows[i].Item, CustomerRows[i].Category>> :
                        i \in 1..Len(CustomerRows)}
        IN  /\ Len(result) = Cardinality(pairs)
            /\ {<<result[k].Item, result[k].Category>> : k \in 1..Len(result)}
                    = pairs
            /\ \A k \in 1..Len(result) :
                LET g == ProductRows(result[k].Item, result[k].Category)
                IN  /\ result[k].purchase_count >= 1
                    /\ result[k].total_quantity
                            = SeqSum([i \in 1..Len(g) |-> g[i].Quantity])
                    /\ result[k].first_purchase <= result[k].last_purchase
            /\ SeqSum([k \in 1..Len(result) |-> result[k].purchase_count])
                    = Len(CustomerRows)

\* An analysis with an item name in two categories, a product bought several
\* times in quantities above one, in a table that has another customer's
\* records too.
C22_Witness ==
    /\ Done("analyze_purchase_patterns")
    /\ \E j, k \in 1..Len(result) :
        result[j].Item = result[k].Item /\ result[j].Category # result[k].Category
    /\ \E k \in 1..Len(result) :
        result[k].purchase_count >= 2
            /\ result[k].total_quantity > result[k].purchase_count
    /\ Len(CustomerRows) < Len(df)

\* The body's bucket_list has an entry that is not an object with an 'item'
\* key.
HasInvalidEntry(body) ==
    /\ body.kind = "dict" /\ body.has
    /\ \E i \in 1..Len(body.bucket_list.items) :
        ~(/\ body.bucket_list.items[i].kind = "dict"
          /\ "item" \in body.bucket_list.items[i].keys)

\* C23: a POST whose bucket_list has an entry that is not an object with an
\* 'item' key is answered 400, and every value the store holds is a list
\* whose entries each have an 'item' key.
C23_StoreValidated ==
    /\ (Done("bucket_list_post") /\ HasInvalidEntry(args.body)) => status = 400
    /\ \A u \in DOMAIN user_bucket_lists :
        /\ user_bucket_lists[u].type = "list"
        /\ \A i \in 1..Len(user_bucket_lists[u].items) :
            "item" \in user_bucket_lists[u].items[i].keys

\* What holds of the POST: a bucket_list with an invalid entry is answered 400
\* and leaves the store as it was, for every customer; every entry of a stored
\* value has an 'item' key, and a stored value that is no list ("" or {}) has
\* no entry.
C23_InvalidRejected ==
    /\ [][(pc = "idle" /\ op' = "bucket_list_post" /\ HasInvalidEntry(args'.body))
            => (status' = 400 /\ user_bucket_lists' = user_bucket_lists)]_vars
    /\ [](\A u \in DOMAIN user_bucket_lists :
            /\ user_bucket_lists[u].type \in {"list", "str", "dict"}
            /\ user_bucket_lists[u].type # "list"
                    => user_bucket_lists[u].items = <<>>
            /\ \A i \in 1..Len(user_bucket_lists[u].items) :
                "item" \in user_bucket_lists[u].items[i].keys)

\* The list of the customer's last successful POST, the empty list when
\* there was none.
LastPosted(u) == IF u \in DOMAIN posted THEN posted[u] ELSE JsonList(<<>>)

\* C24: a GET of a customer's bucket list returns the non-empty list of the
\* customer's last successful POST, with type "custom", whatever was posted
\* for other customers; when the customer has no list or an empty one, it
\* returns generate_recommendations(customer) with type "ai_generated" if there
\* is an analyzer and it does not fail, and the stored list with type "empty"
\* otherwise.
C24_ReadAfterWrite ==
    Done("bucket_list_get") =>
        LET u == args.user_id
        IN  IF LastPosted(u).items # <<>>
            THEN result = [bucket_list |-> LastPosted(u), type |-> "custom"]
            ELSE IF /\ analyzer = "ok"
                    /\ Reads("generate_recommendations", <<>>) \subseteq csv.columns
            THEN result =
                    [bucket_list |->
                        JsonList(generate_recommendations(df, u,
                            DefaultMinPurchases, DefaultTargetInterval)),
                     type |-> "ai_generated"]
            ELSE result = [bucket_list |-> LastPosted(u), type |-> "empty"]

\* A GET returns a customer's list of two entries while another customer has
\* another list.
C24_Witness ==
    /\ Done("bucket_list_get")
    /\ result.type = "custom"
    /\ Len(result.bucket_list.items) = 2
    /\ \E v \in DOMAIN posted :
        /\ v # args.user_id
        /\ posted[v].items # <<>>
        /\ posted[v] # posted[args.user_id]

\* C25: whatever save_selected_items, remove_saved_item and
\* clear_all_saved_items callbacks ran since the saved list was empty, no two
\* items of the saved list have the same name.
C25_NoDuplicateNames ==
    \A i, j \in 1..Len(saved_items.items) :
        i # j => saved_items.items[i].name # saved_items.items[j].name

\* What holds of the saved list: a save adds no item whose name the list had
\* before it; no two saved items have the same name and category.
C25_NoDuplicateProducts ==
    \A i, j \in 1..Len(saved_items.items) :
        i # j =>
            \/ saved_items.items[i].name # saved_items.items[j].name
            \/ saved_items.items[i].category # saved_items.items[j].category

====
